---- MODULE Spec2Model ----
(***************************************************************************)
(* SimpleTemplate.render of documentation-update/doc_generator.py.         *)
(*                                                                         *)
(* Text is a sequence of one-character strings.  A Python value is a       *)
(* record with a kind; a dict (the context, a record of a list) is the     *)
(* sequence of its items in insertion order, which is the order            *)
(* dict.items() visits them in.                                            *)
(***************************************************************************)
EXTENDS Naturals, Integers, Sequences, FiniteSets, TLC

VARIABLES template, context, result, pc, error

\* MarketplaceUpdater: the stored marketplace.json, self.marketplace_data,
\* the last call made and how it ended
VARIABLES file, marketplace_data, op, outcome

\* main of doc_generator.py: the template files that exist, the command
\* line, the documents still to generate, the output files written, the
\* documents whose generation printed an error, where the run is, and the
\* exit status
VARIABLES templates, args, docs, written, failed, stage, exit_code

renderVars == <<template, context, result, pc, error>>
catalogVars == <<file, marketplace_data, op, outcome>>
driverVars == <<templates, args, docs, written, failed, stage, exit_code>>

vars == <<renderVars, catalogVars, driverVars>>

-----------------------------------------------------------------------------
(* Characters and literal strings of the source.                           *)

NL == "\n"
SP == <<" ">>
OpenTag == <<"{", "%">>
CloseTag == <<"%", "}">>
OpenVar == <<"{", "{">>
CloseVar == <<"}", "}">>
ForWord == <<"f", "o", "r">>
InWord == <<"i", "n">>
EndforWord == <<"e", "n", "d", "f", "o", "r">>
IfWord == <<"i", "f">>
EndifWord == <<"e", "n", "d", "i", "f">>

\* \s of the patterns
SpaceChars == {" ", "\n", "\t"}
IsSpace(c) == c \in SpaceChars

\* \w of the patterns, over the characters the model uses
WordChars == {"a", "b", "c", "d", "e", "f", "g", "i", "n", "o", "r", "s",
              "x", "y", "L", "M", "T", "F", "X", "u", "l",
              "0", "1", "2", "3", "4", "5", "6", "7", "8", "9", "_"}
IsWord(c) == c \in WordChars

\* the pattern p occurs in s at index i
StartsAt(s, i, p) ==
    /\ i >= 1
    /\ i + Len(p) - 1 <= Len(s)
    /\ SubSeq(s, i, i + Len(p) - 1) = p

Slice(s, i, j) == IF j < i THEN <<>> ELSE SubSeq(s, i, j)

\* the least element of a non-empty set of indices
Least(S) == CHOOSE x \in S : \A y \in S : x <= y

\* the first index j in i..Len(s) where Here(j) holds, 0 when there is none:
\* a pattern is tried at each index from the left
FirstIndex(s, i, Here(_)) ==
    LET S == {j \in i..Len(s) : Here(j)}
    IN  IF S = {} THEN 0 ELSE Least(S)

RECURSIVE SkipSpaces(_, _)
\* \s* at index i: the index after the maximal run of \s
SkipSpaces(s, i) ==
    IF i >= 1 /\ i <= Len(s) /\ IsSpace(s[i]) THEN SkipSpaces(s, i + 1) ELSE i

RECURSIVE SkipWord(_, _)
\* \w* at index i: the index after the maximal run of \w
SkipWord(s, i) ==
    IF i >= 1 /\ i <= Len(s) /\ IsWord(s[i]) THEN SkipWord(s, i + 1) ELSE i

-----------------------------------------------------------------------------
(* Python values.                                                          *)

StrVal(s) == [kind |-> "str", n |-> 0, s |-> s, items |-> <<>>]
IntVal(n) == [kind |-> "int", n |-> n, s |-> <<>>, items |-> <<>>]
BoolVal(b) == [kind |-> "bool", n |-> IF b THEN 1 ELSE 0, s |-> <<>>, items |-> <<>>]
NoneVal == [kind |-> "none", n |-> 0, s |-> <<>>, items |-> <<>>]
ListVal(xs) == [kind |-> "list", n |-> 0, s |-> <<>>, items |-> xs]
DictVal(kvs) == [kind |-> "dict", n |-> 0, s |-> <<>>, items |-> kvs]
Item(k, v) == [k |-> k, v |-> v]

Digit(d) == <<"0", "1", "2", "3", "4", "5", "6", "7", "8", "9">>[d + 1]

RECURSIVE Digits(_)
Digits(n) == IF n < 10 THEN <<Digit(n)>> ELSE Digits(n \div 10) \o <<Digit(n % 10)>>

IntStr(n) == IF n < 0 THEN <<"-">> \o Digits(0 - n) ELSE Digits(n)

RECURSIVE PyRepr(_)
RECURSIVE JoinRepr(_, _)
RECURSIVE JoinItems(_, _)

\* ", ".join(repr(x) for x in xs[i:])
JoinRepr(xs, i) ==
    IF i > Len(xs) THEN <<>>
    ELSE PyRepr(xs[i]) \o (IF i < Len(xs) THEN <<",", " ">> ELSE <<>>) \o JoinRepr(xs, i + 1)

\* ", ".join(repr(k) + ": " + repr(v) for k, v in kvs[i:])
JoinItems(kvs, i) ==
    IF i > Len(kvs) THEN <<>>
    ELSE <<"'">> \o kvs[i].k \o <<"'", ":", " ">> \o PyRepr(kvs[i].v)
         \o (IF i < Len(kvs) THEN <<",", " ">> ELSE <<>>) \o JoinItems(kvs, i + 1)

\* repr(v); a str holds no quote and no backslash in this model
PyRepr(v) ==
    CASE v.kind = "str" -> <<"'">> \o v.s \o <<"'">>
      [] v.kind = "int" -> IntStr(v.n)
      [] v.kind = "bool" -> IF v.n = 1 THEN <<"T", "r", "u", "e">> ELSE <<"F", "a", "l", "s", "e">>
      [] v.kind = "none" -> <<"N", "o", "n", "e">>
      [] v.kind = "list" -> <<"[">> \o JoinRepr(v.items, 1) \o <<"]">>
      [] v.kind = "dict" -> <<"{">> \o JoinItems(v.items, 1) \o <<"}">>

\* str(v)
PyStr(v) == IF v.kind = "str" THEN v.s ELSE PyRepr(v)

\* bool(v)
Truthy(v) ==
    CASE v.kind = "str" -> Len(v.s) > 0
      [] v.kind = "int" -> v.n # 0
      [] v.kind = "bool" -> v.n = 1
      [] v.kind = "none" -> FALSE
      [] v.kind = "list" -> Len(v.items) > 0
      [] v.kind = "dict" -> Len(v.items) > 0

\* key in d
HasKey(d, key) == \E i \in 1..Len(d) : d[i].k = key

\* raised by d[key] when key is not in d
KeyError == [kind |-> "KeyError", n |-> 0, s |-> <<>>, items |-> <<>>]

\* d[key]
GetItem(d, key) ==
    IF HasKey(d, key) THEN d[CHOOSE i \in 1..Len(d) : d[i].k = key].v ELSE KeyError

\* d[key] = value: an existing key keeps its place, a new key goes last
SetItem(d, key, value) ==
    IF HasKey(d, key)
    THEN [i \in 1..Len(d) |-> IF d[i].k = key THEN Item(key, value) ELSE d[i]]
    ELSE Append(d, Item(key, value))

-----------------------------------------------------------------------------
(* str.replace                                                             *)

RECURSIVE ReplaceFrom(_, _, _, _)
\* s[i:].replace(old, new): occurrences are taken from the left and do not overlap
ReplaceFrom(s, i, old, new) ==
    LET j == FirstIndex(s, i, LAMBDA q : StartsAt(s, q, old))
    IN  IF j = 0 THEN Slice(s, i, Len(s))
        ELSE Slice(s, i, j - 1) \o new \o ReplaceFrom(s, j + Len(old), old, new)

\* s.replace(old, new), old not empty
Replace(s, old, new) == ReplaceFrom(s, 1, old, new)

\* the key alone, the braces forgotten
VarRefBare(key) == key

\* f"{{{{ {key} }}}}"
VarRef(key) == OpenVar \o SP \o key \o SP \o CloseVar

\* f"{{{{ {var_name}.{k} }}}}"
FieldRef(var_name, k) == OpenVar \o SP \o var_name \o <<".">> \o k \o SP \o CloseVar

RECURSIVE SubstituteFrom(_, _, _)
SubstituteFrom(text, d, i) ==
    IF i > Len(d) THEN text
    ELSE SubstituteFrom(Replace(text, VarRef(d[i].k), PyStr(d[i].v)), d, i + 1)

\* for key, value in context.items(): result = result.replace(...)
SubstituteVariables(text, ctx) == SubstituteFrom(text, ctx, 1)

-----------------------------------------------------------------------------
(* What a callback or a stage hands back: the text, the context object as  *)
(* the call leaves it, and the exception raised, if any.                   *)

Returned(text, ctx) == [text |-> text, context |-> ctx, error |-> "none"]
Raised(name, ctx) == [text |-> <<>>, context |-> ctx, error |-> name]

\* acc + rest.text, everything else as rest has it
Prepend(acc, rest) == [rest EXCEPT !.text = acc \o @]

-----------------------------------------------------------------------------
(* Loops: {% for item in items %}...{% endfor %}                           *)

\* {%\s*<word>\s*%} at index j: the index after it, 0 when it is not there
ClosingTagEnd(s, j, word) ==
    LET a == SkipSpaces(s, j + 2)
        b == a + Len(word)
        c == SkipSpaces(s, b)
    IN  IF StartsAt(s, j, OpenTag) /\ StartsAt(s, a, word) /\ StartsAt(s, c, CloseTag)
        THEN c + 2 ELSE 0

\* (.*?) with DOTALL before the closing tag: the first index >= j where it matches
FindClosingTag(s, j, word) ==
    FirstIndex(s, j, LAMBDA q : ClosingTagEnd(s, q, word) > 0)

NoMatch == [ok |-> FALSE, g1 |-> <<>>, g2 |-> <<>>, g3 |-> <<>>, end |-> 0]

\* for_pattern at index i: groups 1..3 and the index after the match
for_pattern(s, i) ==
    IF ~StartsAt(s, i, OpenTag) THEN NoMatch
    ELSE
    LET a == SkipSpaces(s, i + 2)
        b == a + 3
        c == SkipSpaces(s, b)
        d == SkipWord(s, c)
        e == SkipSpaces(s, d)
        f == e + 2
        g == SkipSpaces(s, f)
        h == SkipWord(s, g)
        k == SkipSpaces(s, h)
        body == k + 2
        close == FindClosingTag(s, body, EndforWord)
    IN  IF /\ StartsAt(s, a, ForWord) /\ c > b /\ d > c /\ e > d
           /\ StartsAt(s, e, InWord) /\ g > f /\ h > g
           /\ StartsAt(s, k, CloseTag) /\ close > 0
        THEN [ok |-> TRUE, g1 |-> Slice(s, c, d - 1), g2 |-> Slice(s, g, h - 1),
              g3 |-> Slice(s, body, close - 1),
              end |-> ClosingTagEnd(s, close, EndforWord)]
        ELSE NoMatch

RECURSIVE ReplaceFields(_, _, _, _)
\* for k, v in item.items(): body_result = body_result.replace(...)
ReplaceFields(body_result, var_name, kvs, i) ==
    IF i > Len(kvs) THEN body_result
    ELSE ReplaceFields(Replace(body_result, FieldRef(var_name, kvs[i].k), PyStr(kvs[i].v)),
                       var_name, kvs, i + 1)

\* the body of one iteration, the dict case forgotten
LoopBodyScalarOnly(loop_body, var_name, item) ==
    Replace(loop_body, VarRef(var_name), PyStr(item))

\* the body of one iteration
LoopBody(loop_body, var_name, item) ==
    IF item.kind = "dict"
    THEN ReplaceFields(loop_body, var_name, item.items, 1)
    ELSE Replace(loop_body, VarRef(var_name), PyStr(item))

\* loop_context = context, without the copy: one object under two names
LoopContextAliased(ctx, var_name, item) ==
    [context |-> SetItem(ctx, var_name, item), loop_context |-> SetItem(ctx, var_name, item)]

\* loop_context = context.copy(); loop_context[var_name] = item
\* the two objects after the two statements
LoopContext(ctx, var_name, item) ==
    [context |-> ctx, loop_context |-> SetItem(ctx, var_name, item)]

RECURSIVE ForItems(_, _, _, _, _)
\* for item in items: ...; "".join(output)
ForItems(ctx, var_name, items, loop_body, i) ==
    IF i > Len(items) THEN Returned(<<>>, ctx)
    ELSE LET objs == LoopContext(ctx, var_name, items[i])
         IN  Prepend(LoopBody(loop_body, var_name, items[i]),
                     ForItems(objs.context, var_name, items, loop_body, i + 1))

RECURSIVE CharItems(_, _)
\* the items a for statement draws from a str: its characters
CharItems(str, i) ==
    IF i > Len(str) THEN <<>> ELSE <<StrVal(<<str[i]>>)>> \o CharItems(str, i + 1)

\* replace_for without the test "isinstance(items, list)": a str is iterated
\* character by character, any other value that is no list raises TypeError
replace_forAnyValue(ctx, var_name, list_name, loop_body) ==
    IF ~HasKey(ctx, list_name) THEN Returned(<<>>, ctx)
    ELSE LET items == GetItem(ctx, list_name)
         IN  IF items.kind = "list" THEN ForItems(ctx, var_name, items.items, loop_body, 1)
             ELSE IF items.kind = "str"
                  THEN ForItems(ctx, var_name, CharItems(items.s, 1), loop_body, 1)
             ELSE Raised("TypeError", ctx)

\* replace_for without the test "list_name not in context"
replace_forUnchecked(ctx, var_name, list_name, loop_body) ==
    LET items == GetItem(ctx, list_name)
    IN  IF items.kind = "KeyError" THEN Raised("KeyError", ctx)
        ELSE IF items.kind # "list" THEN Returned(<<>>, ctx)
        ELSE ForItems(ctx, var_name, items.items, loop_body, 1)

replace_for(ctx, var_name, list_name, loop_body) ==
    IF ~HasKey(ctx, list_name) THEN Returned(<<>>, ctx)
    ELSE LET items == GetItem(ctx, list_name)
         IN  IF items.kind = "KeyError" THEN Raised("KeyError", ctx)
             ELSE IF items.kind # "list" THEN Returned(<<>>, ctx)
             ELSE ForItems(ctx, var_name, items.items, loop_body, 1)

RECURSIVE SubFor(_, _, _)
\* re.sub(for_pattern, replace_for, s[i:], flags=re.DOTALL)
SubFor(s, i, ctx) ==
    LET j == FirstIndex(s, i, LAMBDA q : for_pattern(s, q).ok)
    IN  IF j = 0 THEN Returned(Slice(s, i, Len(s)), ctx)
        ELSE LET m == for_pattern(s, j)
                 r == replace_for(ctx, m.g1, m.g2, m.g3)
             IN  IF r.error # "none" THEN r
                 ELSE Prepend(Slice(s, i, j - 1) \o r.text, SubFor(s, m.end, r.context))

ExpandLoops(text, ctx) == SubFor(text, 1, ctx)

-----------------------------------------------------------------------------
(* Conditionals: {% if condition %}...{% endif %}                          *)

\* if_pattern at index i: group 1 in g1, group 2 in g3
if_pattern(s, i) ==
    IF ~StartsAt(s, i, OpenTag) THEN NoMatch
    ELSE
    LET a == SkipSpaces(s, i + 2)
        b == a + 2
        c == SkipSpaces(s, b)
        d == SkipWord(s, c)
        k == SkipSpaces(s, d)
        body == k + 2
        close == FindClosingTag(s, body, EndifWord)
    IN  IF /\ StartsAt(s, a, IfWord) /\ c > b /\ d > c
           /\ StartsAt(s, k, CloseTag) /\ close > 0
        THEN [ok |-> TRUE, g1 |-> Slice(s, c, d - 1), g2 |-> <<>>,
              g3 |-> Slice(s, body, close - 1),
              end |-> ClosingTagEnd(s, close, EndifWord)]
        ELSE NoMatch

\* replace_if that keeps the body whatever the context holds
replace_ifKeepBody(ctx, condition, body) == Returned(body, ctx)

\* replace_if that tests only "condition in context"
replace_ifPresentOnly(ctx, condition, body) ==
    IF HasKey(ctx, condition) THEN Returned(body, ctx) ELSE Returned(<<>>, ctx)

replace_if(ctx, condition, body) ==
    IF ~HasKey(ctx, condition) THEN Returned(<<>>, ctx)
    ELSE LET value == GetItem(ctx, condition)
         IN  IF value.kind = "KeyError" THEN Raised("KeyError", ctx)
             ELSE IF Truthy(value) THEN Returned(body, ctx)
             ELSE Returned(<<>>, ctx)

RECURSIVE SubIf(_, _, _)
\* re.sub(if_pattern, replace_if, s[i:], flags=re.DOTALL)
SubIf(s, i, ctx) ==
    LET j == FirstIndex(s, i, LAMBDA q : if_pattern(s, q).ok)
    IN  IF j = 0 THEN Returned(Slice(s, i, Len(s)), ctx)
        ELSE LET m == if_pattern(s, j)
                 r == replace_if(ctx, m.g1, m.g3)
             IN  IF r.error # "none" THEN r
                 ELSE Prepend(Slice(s, i, j - 1) \o r.text, SubIf(s, m.end, r.context))

ExpandConditionals(text, ctx) == SubIf(text, 1, ctx)

-----------------------------------------------------------------------------
(* Clean up any remaining template syntax.                                 *)

\* .*? without DOTALL before the closing pair: the first index >= j where the
\* pair is, with no newline between; 0 when there is none
FindClose(s, j, close) ==
    LET k == FirstIndex(s, j, LAMBDA q : StartsAt(s, q, close) \/ s[q] = NL)
    IN  IF k > 0 /\ StartsAt(s, k, close) THEN k ELSE 0

\* open .*? close at index i: the index of the closing pair, 0 when no match
SpanClose(s, i, open, close) ==
    IF StartsAt(s, i, open) THEN FindClose(s, i + 2, close) ELSE 0

RECURSIVE SubSpan(_, _, _, _)
\* re.sub(open + '.*?' + close, '', s[i:])
SubSpan(s, i, open, close) ==
    LET j == FirstIndex(s, i, LAMBDA q : SpanClose(s, q, open, close) > 0)
    IN  IF j = 0 THEN Slice(s, i, Len(s))
        ELSE Slice(s, i, j - 1) \o SubSpan(s, SpanClose(s, j, open, close) + 2, open, close)

\* re.sub(r'{%.*?%}', '', result)
CleanupTags(text) == SubSpan(text, 1, OpenTag, CloseTag)

\* the sweep of {{...}} left out
CleanupVarsSkipped(text) == text

\* re.sub(r'{{.*?}}', '', result)
CleanupVars(text) == SubSpan(text, 1, OpenVar, CloseVar)

-----------------------------------------------------------------------------
(* SimpleTemplate.render as one function of the template and the context.  *)

render(tpl, ctx) ==
    LET s1 == SubstituteVariables(tpl, ctx)
        s2 == ExpandLoops(s1, ctx)
        s3 == ExpandConditionals(s2.text, s2.context)
    IN  IF s2.error # "none" THEN s2
        ELSE IF s3.error # "none" THEN s3
        ELSE Returned(CleanupVars(CleanupTags(s3.text)), s3.context)

-----------------------------------------------------------------------------
(* The inputs: templates put together from a few fragments, and a few      *)
(* contexts.                                                               *)

MaxParts == 3

Name_a == <<"a">>
Name_b == <<"b">>
Name_c == <<"c">>
Name_f == <<"f">>
Name_g == <<"g">>
Name_x == <<"x">>
Name_L == <<"L">>

\* a scalar reference and a field reference as a template author writes them
Reference(name) == <<"{", "{", " ">> \o name \o <<" ", "}", "}">>
FieldReference(name, field) == <<"{", "{", " ">> \o name \o <<".">> \o field \o <<" ", "}", "}">>

ForTag(var_name, list_name) ==
    OpenTag \o SP \o ForWord \o SP \o var_name \o SP \o InWord \o SP \o list_name \o SP \o CloseTag
EndforTag == OpenTag \o SP \o EndforWord \o SP \o CloseTag
IfTag(condition) == OpenTag \o SP \o IfWord \o SP \o condition \o SP \o CloseTag
EndifTag == OpenTag \o SP \o EndifWord \o SP \o CloseTag
\* an if tag written over two lines
IfTagTwoLines(condition) == OpenTag \o SP \o IfWord \o SP \o condition \o <<NL>> \o CloseTag

Fragments ==
    << ForTag(Name_x, Name_L), EndforTag, IfTag(Name_c), EndifTag,
       Reference(Name_x), FieldReference(Name_x, Name_f),
       <<"a">>, <<NL>>, <<"{">>, IfTagTwoLines(Name_c) >>

RECURSIVE Concat(_, _)
Concat(parts, i) == IF i > Len(parts) THEN <<>> ELSE Fragments[parts[i]] \o Concat(parts, i + 1)

Templates ==
    {Concat(parts, 1) : parts \in UNION {[1..n -> 1..Len(Fragments)] : n \in 0..MaxParts}}

Contexts ==
    << <<>>,
       << Item(Name_a, StrVal(<<"X">>)), Item(Name_c, BoolVal(TRUE)),
          Item(Name_L, ListVal(<<IntVal(1), IntVal(2)>>)) >>,
       << Item(Name_L, ListVal(<<DictVal(<<Item(Name_g, IntVal(1)), Item(Name_f, StrVal(<<"X">>))>>),
                                 DictVal(<<Item(Name_g, IntVal(2))>>)>>)),
          Item(Name_c, BoolVal(FALSE)) >>,
       << Item(Name_L, StrVal(<<"a", "b">>)), Item(Name_c, StrVal(<<>>)),
          Item(Name_x, BoolVal(TRUE)) >>,
       << Item(Name_x, StrVal(<<"T">>)), Item(Name_L, ListVal(<<StrVal(<<"a">>), IntVal(12)>>)),
          Item(Name_c, IntVal(0)) >>,
       << Item(Name_x, StrVal(Reference(Name_b))), Item(Name_b, StrVal(<<"X">>)),
          Item(Name_c, ListVal(<<>>)), Item(Name_L, ListVal(<<>>)) >>
    >>

-----------------------------------------------------------------------------
(* MarketplaceUpdater of marketplace-update/marketplace_update.py.         *)
(* A catalog document keeps its "plugins" key and, of a plugin record, the *)
(* name, the version and the "agents" list; the other keys of add_plugin   *)
(* and update_plugin are written the same way and take part in no condition. *)

MaxPlugins == 3

PluginNames == {"p", "q"}
Versions == {"1.0", "2.0"}
AgentFiles == {"a.md"}

\* f"./agents/{agent}"
AgentPath(agent) == <<"./agents/", agent>>

Plugin(name, version, has_agents, agents) ==
    [name |-> name, version |-> version, has_agents |-> has_agents, agents |-> agents]

Document(has_plugins, plugins) == [has_plugins |-> has_plugins, plugins |-> plugins]

\* self.marketplace_data = {}
EmptyData == Document(FALSE, <<>>)

MissingFile == [kind |-> "missing", data |-> EmptyData]
InvalidFile == [kind |-> "invalid", data |-> EmptyData]
JsonFile(data) == [kind |-> "json", data |-> data]

NoCall == [name |-> "none", plugin |-> ""]
Call(name, plugin) == [name |-> name, plugin |-> plugin]

\* what a method hands back: the file, self.marketplace_data, the exception
Ended(f, data, exception) == [file |-> f, marketplace_data |-> data, outcome |-> exception]

\* load: FileNotFoundError when the file is missing, ValueError when it
\* holds no JSON, else self.marketplace_data = json.load(f)
load(f, data) ==
    IF f.kind = "missing" THEN Ended(f, data, "FileNotFoundError")
    ELSE IF f.kind = "invalid" THEN Ended(f, data, "ValueError")
    ELSE Ended(f, f.data, "none")

\* save: json.dump(self.marketplace_data, f)
save(data) == JsonFile(data)

\* the index of the first plugin whose name is name, 0 for None
_find_plugin(data, name) ==
    IF ~data.has_plugins THEN 0
    ELSE LET S == {i \in 1..Len(data.plugins) : data.plugins[i].name = name}
         IN  IF S = {} THEN 0 ELSE Least(S)

\* list.remove(x): xs without its first element equal to x
ListRemove(xs, x) ==
    LET i == Least({k \in 1..Len(xs) : xs[k] = x})
    IN  SubSeq(xs, 1, i - 1) \o SubSeq(xs, i + 1, Len(xs))

\* x in xs
ListHas(xs, x) == \E k \in 1..Len(xs) : xs[k] = x

-----------------------------------------------------------------------------
(* DocGenerator and main of documentation-update/doc_generator.py.         *)

\* docs_to_generate, in the order of the dict
DocNames == <<"agents", "agent-skills", "plugins", "usage">>
DocSet == {DocNames[i] : i \in 1..Len(DocNames)}

\* --file left out
NoFile == ""

Args(dry_run, specific_file) == [dry_run |-> dry_run, specific_file |-> specific_file]

\* no run of main
DriverIdle ==
    /\ templates = {}
    /\ args = Args(FALSE, NoFile)
    /\ docs = <<>>
    /\ written = {}
    /\ failed = {}
    /\ stage = "idle"
    /\ exit_code = 0

\* load_marketplace: FileNotFoundError when the file is missing,
\* json.load raises when it holds no JSON
load_marketplace(f, data) ==
    IF f.kind = "missing" THEN Ended(f, data, "FileNotFoundError")
    ELSE IF f.kind = "invalid" THEN Ended(f, data, "JSONDecodeError")
    ELSE Ended(f, f.data, "none")

\* render_template: FileNotFoundError when the template file is missing
render_template(template_name) ==
    IF template_name \in templates THEN "none" ELSE "FileNotFoundError"

-----------------------------------------------------------------------------
(* The methods of MarketplaceUpdater.                                      *)

\* add_plugin with the test on the name made after the record is stored
add_pluginCheckLast(f, data, name, version, agents) ==
    LET l == load(f, data)
    IN  IF l.outcome # "none" THEN l
        ELSE LET d1 == IF l.marketplace_data.has_plugins THEN l.marketplace_data
                       ELSE Document(TRUE, <<>>)
                 entry == Plugin(name, version, agents # <<>>,
                                 [k \in 1..Len(agents) |-> AgentPath(agents[k])])
                 d2 == Document(TRUE, Append(d1.plugins, entry))
             IN  Ended(save(d2), d2,
                       IF _find_plugin(d1, name) # 0 THEN "ValueError" ELSE "none")

\* add_plugin without the test on the name
add_pluginUnchecked(f, data, name, version, agents) ==
    LET l == load(f, data)
    IN  IF l.outcome # "none" THEN l
        ELSE LET d1 == IF l.marketplace_data.has_plugins THEN l.marketplace_data
                       ELSE Document(TRUE, <<>>)
                 entry == Plugin(name, version, agents # <<>>,
                                 [k \in 1..Len(agents) |-> AgentPath(agents[k])])
                 d2 == Document(TRUE, Append(d1.plugins, entry))
             IN  Ended(save(d2), d2, "none")

\* add_plugin(name, version, agents): load, raise ValueError when the name
\* is found, else append the entry and save
add_plugin(f, data, name, version, agents) ==
    LET l == load(f, data)
    IN  IF l.outcome # "none" THEN l
        ELSE LET d1 == IF l.marketplace_data.has_plugins THEN l.marketplace_data
                       ELSE Document(TRUE, <<>>)
             IN  IF _find_plugin(d1, name) # 0 THEN Ended(f, d1, "ValueError")
                 ELSE LET entry == Plugin(name, version, agents # <<>>,
                                          [k \in 1..Len(agents) |-> AgentPath(agents[k])])
                          d2 == Document(TRUE, Append(d1.plugins, entry))
                      IN  Ended(save(d2), d2, "none")

\* the plugin after "if version", "if add_agent", "if remove_agent";
\* "" stands for an argument left at None
Updated(plugin, version, add_agent, remove_agent) ==
    LET p1 == IF version # "" THEN [plugin EXCEPT !.version = version] ELSE plugin
        p2 == IF add_agent = "" THEN p1
              ELSE LET q == IF p1.has_agents THEN p1
                            ELSE [p1 EXCEPT !.has_agents = TRUE, !.agents = <<>>]
                   IN  IF ListHas(q.agents, AgentPath(add_agent)) THEN q
                       ELSE [q EXCEPT !.agents = Append(q.agents, AgentPath(add_agent))]
    IN  IF remove_agent # "" /\ p2.has_agents /\ ListHas(p2.agents, AgentPath(remove_agent))
        THEN [p2 EXCEPT !.agents = ListRemove(p2.agents, AgentPath(remove_agent))]
        ELSE p2

\* update_plugin(name, version, add_agent, remove_agent): load, raise
\* ValueError when the name is not found, else change the record and save
update_plugin(f, data, name, version, add_agent, remove_agent) ==
    LET l == load(f, data)
    IN  IF l.outcome # "none" THEN l
        ELSE LET d == l.marketplace_data
                 i == _find_plugin(d, name)
             IN  IF i = 0 THEN Ended(f, d, "ValueError")
                 ELSE LET d2 == [d EXCEPT !.plugins[i] =
                                     Updated(d.plugins[i], version, add_agent, remove_agent)]
                      IN  Ended(save(d2), d2, "none")

\* remove_plugin(name): load, raise ValueError when the name is not found,
\* else take the record out of the list and save
remove_plugin(f, data, name) ==
    LET l == load(f, data)
    IN  IF l.outcome # "none" THEN l
        ELSE LET d == l.marketplace_data
                 i == _find_plugin(d, name)
             IN  IF i = 0 THEN Ended(f, d, "ValueError")
                 ELSE LET d2 == [d EXCEPT !.plugins = ListRemove(d.plugins, d.plugins[i])]
                      IN  Ended(save(d2), d2, "none")

\* the catalogs a run starts from: no file, a file that is no JSON, a
\* document without "plugins", and documents whose plugins have distinct names
AgentLists == {<<>>, <<AgentPath("a.md")>>}

InitialPlugins(name) ==
    {Plugin(name, "1.0", FALSE, <<>>)} \cup {Plugin(name, "1.0", TRUE, as) : as \in AgentLists}

InitialFiles ==
    {MissingFile, InvalidFile, JsonFile(EmptyData), JsonFile(Document(TRUE, <<>>))}
    \cup {JsonFile(Document(TRUE, <<x>>)) : x \in InitialPlugins("p")}
    \cup {JsonFile(Document(TRUE, <<x, y>>)) : x \in InitialPlugins("q"), y \in InitialPlugins("p")}

InitCatalog ==
    /\ file \in InitialFiles
    /\ marketplace_data = EmptyData
    /\ op = NoCall
    /\ outcome = "none"
    /\ DriverIdle
    /\ template = <<>>
    /\ context = <<>>
    /\ result = <<>>
    /\ pc = "idle"
    /\ error = "none"

\* the end of a call: what it stored, what it holds, how it ended
Ends(call, r) ==
    /\ file' = r.file
    /\ marketplace_data' = r.marketplace_data
    /\ outcome' = r.outcome
    /\ op' = call
    /\ UNCHANGED <<renderVars, driverVars>>

AddPlugin ==
    /\ pc = "idle"
    /\ file.kind = "json" => Len(file.data.plugins) < MaxPlugins
    /\ \E name \in PluginNames : \E version \in Versions :
       \E agents \in {<<>>} \cup {<<a>> : a \in AgentFiles} :
           Ends(Call("add", name), add_plugin(file, marketplace_data, name, version, agents))

UpdatePlugin ==
    /\ pc = "idle"
    /\ \E name \in PluginNames : \E version \in Versions \cup {""} :
       \E add_agent \in AgentFiles \cup {""} : \E remove_agent \in AgentFiles \cup {""} :
           Ends(Call("update", name),
                update_plugin(file, marketplace_data, name, version, add_agent, remove_agent))

RemovePlugin ==
    /\ pc = "idle"
    /\ \E name \in PluginNames :
           Ends(Call("remove", name), remove_plugin(file, marketplace_data, name))

NextCatalog == AddPlugin \/ UpdatePlugin \/ RemovePlugin

SpecCatalog == InitCatalog /\ [][NextCatalog]_vars

-----------------------------------------------------------------------------
(* One run of main of doc_generator.py.                                    *)

InitDriver ==
    /\ file \in {MissingFile, InvalidFile, JsonFile(Document(TRUE, <<>>))}
    /\ marketplace_data = EmptyData
    /\ op = NoCall
    /\ outcome = "none"
    /\ template = <<>>
    /\ context = <<>>
    /\ result = <<>>
    /\ pc = "idle"
    /\ error = "none"
    /\ templates \in SUBSET DocSet
    /\ \E dry_run \in BOOLEAN : \E specific_file \in DocSet \cup {NoFile} :
           args = Args(dry_run, specific_file)
    /\ docs = <<>>
    /\ written = {}
    /\ failed = {}
    /\ stage = "main"
    /\ exit_code = 0

\* generate_all up to the loop: load_marketplace, build_context and the
\* choice of the documents; an exception ends main with sys.exit(1)
LoadMarketplace ==
    /\ stage = "main"
    /\ LET l == load_marketplace(file, marketplace_data)
       IN  /\ marketplace_data' = l.marketplace_data
           /\ outcome' = l.outcome
           /\ IF l.outcome # "none"
              THEN /\ stage' = "exited"
                   /\ exit_code' = 1
                   /\ docs' = docs
              ELSE /\ stage' = "generating"
                   /\ exit_code' = exit_code
                   /\ docs' = IF args.specific_file # NoFile
                              THEN <<args.specific_file>> ELSE DocNames
    /\ UNCHANGED <<renderVars, file, op, templates, args, written, failed>>

\* one turn of the loop of generate_all: render the template and print or
\* write the document; an exception is caught, printed, and the loop goes on
GenerateDoc ==
    /\ stage = "generating"
    /\ docs # <<>>
    /\ LET template_name == Head(docs)
       IN  IF render_template(template_name) # "none"
           THEN /\ failed' = failed \cup {template_name}
                /\ written' = written
           ELSE /\ failed' = failed
                /\ written' = IF args.dry_run THEN written ELSE written \cup {template_name}
    /\ docs' = Tail(docs)
    /\ UNCHANGED <<renderVars, catalogVars, templates, args, stage, exit_code>>

\* generate_all returns and main ends without sys.exit
Complete ==
    /\ stage = "generating"
    /\ docs = <<>>
    /\ stage' = "exited"
    /\ UNCHANGED <<renderVars, catalogVars, templates, args, docs, written, failed, exit_code>>

NextDriver == LoadMarketplace \/ GenerateDoc \/ Complete

SpecDriver == InitDriver /\ [][NextDriver]_vars

-----------------------------------------------------------------------------
(* One render call, stage by stage.                                        *)

Init ==
    /\ template \in Templates
    /\ \E i \in 1..Len(Contexts) : context = Contexts[i]
    /\ result = <<>>
    /\ pc = "variables"
    /\ error = "none"
    /\ file = MissingFile
    /\ marketplace_data = EmptyData
    /\ op = NoCall
    /\ outcome = "none"
    /\ DriverIdle

\* result = self.template; replace simple variables
Variables ==
    /\ pc = "variables"
    /\ result' = SubstituteVariables(template, context)
    /\ pc' = "loops"
    /\ UNCHANGED <<template, context, error>>
    /\ UNCHANGED <<catalogVars, driverVars>>

\* Handle loops
Loops ==
    /\ pc = "loops"
    /\ LET r == ExpandLoops(result, context)
       IN  /\ result' = r.text
           /\ context' = r.context
           /\ error' = r.error
           /\ pc' = IF r.error = "none" THEN "conditionals" ELSE "raised"
    /\ UNCHANGED template
    /\ UNCHANGED <<catalogVars, driverVars>>

\* Handle conditionals
Conditionals ==
    /\ pc = "conditionals"
    /\ LET r == ExpandConditionals(result, context)
       IN  /\ result' = r.text
           /\ context' = r.context
           /\ error' = r.error
           /\ pc' = IF r.error = "none" THEN "cleanup" ELSE "raised"
    /\ UNCHANGED template
    /\ UNCHANGED <<catalogVars, driverVars>>

\* Clean up any remaining template syntax; return result
Cleanup ==
    /\ pc = "cleanup"
    /\ result' = CleanupVars(CleanupTags(result))
    /\ pc' = "done"
    /\ UNCHANGED <<template, context, error>>
    /\ UNCHANGED <<catalogVars, driverVars>>

Next == Variables \/ Loops \/ Conditionals \/ Cleanup

Spec == Init /\ [][Next]_vars

-----------------------------------------------------------------------------
(* Render calls on a conditional block written inside a loop body.         *)

MaxInner == 2

InnerFragments == << <<"a">>, Reference(Name_x), <<NL>> >>

RECURSIVE ConcatInner(_, _)
ConcatInner(parts, i) ==
    IF i > Len(parts) THEN <<>> ELSE InnerFragments[parts[i]] \o ConcatInner(parts, i + 1)

InnerTexts ==
    {ConcatInner(parts, 1) : parts \in UNION {[1..n -> 1..Len(InnerFragments)] : n \in 0..MaxInner}}

EdgeTexts == {<<>>, <<"a">>}

NestedTemplates ==
    {pre \o ForTag(Name_x, Name_L) \o b1 \o IfTag(Name_c) \o inner \o EndifTag
         \o b2 \o EndforTag \o post :
        pre \in EdgeTexts, b1 \in EdgeTexts, inner \in InnerTexts,
        b2 \in EdgeTexts, post \in EdgeTexts}

InitNested ==
    /\ template \in NestedTemplates
    /\ \E i \in 1..Len(Contexts) : context = Contexts[i]
    /\ result = <<>>
    /\ pc = "variables"
    /\ error = "none"
    /\ file = MissingFile
    /\ marketplace_data = EmptyData
    /\ op = NoCall
    /\ outcome = "none"
    /\ DriverIdle

SpecNested == InitNested /\ [][Next]_vars

-----------------------------------------------------------------------------
(* Properties of render.                                                   *)

Done == pc = "done"

\* p occurs somewhere in s
Contains(s, p) == \E i \in 1..Len(s) : StartsAt(s, i, p)

\* s holds a span that opens with open and closes with close
HasSpan(s, open, close) ==
    \E i \in 1..Len(s) : \E j \in (i + 2)..Len(s) :
        StartsAt(s, i, open) /\ StartsAt(s, j, close)

\* the key-value pairs of ctx in the order perm
Reordered(ctx, perm) == [i \in 1..Len(ctx) |-> ctx[perm[i]]]

\* C1: the string render returns holds no span from {% to %} and no span
\* from {{ to }}, whatever the template and the context
NoLeftoverSyntax ==
    Done => /\ ~HasSpan(result, OpenTag, CloseTag)
            /\ ~HasSpan(result, OpenVar, CloseVar)

\* C2: render never raises: no stage ends in an exception, and a finished
\* call has returned a string
RenderIsTotal ==
    /\ error = "none"
    /\ pc \in {"variables", "loops", "conditionals", "cleanup", "done"}
    /\ Done => \A i \in 1..Len(result) : result[i] \in STRING

\* a finished call on a template with a loop over a list the context lacks
RenderIsTotalWitness ==
    /\ Done
    /\ template = ForTag(Name_x, Name_L) \o Reference(Name_x) \o EndforTag
    /\ ~HasKey(context, Name_L)

\* C3: a context with the same keys and values in any other order gives the
\* same output
SameOutputInAnyKeyOrder ==
    Done => \A perm \in Permutations(1..Len(context)) :
                render(template, Reordered(context, perm)).text = result

\* C4: no stage changes the template or the context, and rendering the
\* template once more with the context as the call left it gives the same
\* result
RenderLeavesInputs ==
    /\ [][template' = template /\ context' = context]_vars
    /\ [](Done => render(template, context).text = result)

\* a finished call that ran a loop over two items
RenderLeavesInputsWitness ==
    /\ Done
    /\ template = ForTag(Name_x, Name_L) \o Reference(Name_x) \o EndforTag
    /\ HasKey(context, Name_L)
    /\ GetItem(context, Name_L).kind = "list"
    /\ Len(GetItem(context, Name_L).items) = 2

\* C5: a template with neither {{ nor {% in it is returned as it is
LiteralPassthrough ==
    (Done /\ ~Contains(template, OpenVar) /\ ~Contains(template, OpenTag))
        => result = template

\* a finished call on a literal template that holds a brace, a letter that is
\* also a key of the context, and a newline
LiteralPassthroughWitness ==
    /\ Done
    /\ template = <<"{", "a", NL>>
    /\ HasKey(context, Name_a)
    /\ result = template

-----------------------------------------------------------------------------
(* The directives, as the specification describes them.                    *)

RefNames == {Name_a, Name_b, Name_c, Name_x, Name_L}
FieldNames == {Name_f, Name_g}
LoopVars == {Name_x}
ListNames == {Name_L}
Conditions == {Name_c}
IfTags(condition) == {IfTag(condition), IfTagTwoLines(condition)}

\* s holds no opening brace
NoBrace(s) == \A i \in 1..Len(s) : s[i] # "{"

\* s holds neither {{ nor {%
NoDirective(s) == ~Contains(s, OpenVar) /\ ~Contains(s, OpenTag)

\* a scalar reference to one of names starts at index i of s
ReferenceAt(s, i, names) == \E n \in names : StartsAt(s, i, Reference(n))
ReferredAt(s, i, names) == CHOOSE n \in names : StartsAt(s, i, Reference(n))

\* the string form that stands for a reference to n: Value[n] when n is bound
Bound(d, n) == IF HasKey(d, n) THEN PyStr(GetItem(d, n)) ELSE <<>>

RECURSIVE Resolved(_, _, _, _, _)
\* s from index i on, each reference to one of names replaced by the string
\* form of what d binds the name to, or by nothing when erase is set or the
\* name is not bound
Resolved(s, i, names, d, erase) ==
    LET j == FirstIndex(s, i, LAMBDA q : ReferenceAt(s, q, names))
    IN  IF j = 0 THEN Slice(s, i, Len(s))
        ELSE LET n == ReferredAt(s, j, names)
             IN  Slice(s, i, j - 1) \o (IF erase THEN <<>> ELSE Bound(d, n))
                 \o Resolved(s, j + Len(Reference(n)), names, d, erase)

\* the names that s refers to and d binds
BoundReferences(s, names, d) ==
    {n \in names : HasKey(d, n) /\ Contains(s, Reference(n))}

FieldAt(s, i, v) == \E f \in FieldNames : StartsAt(s, i, FieldReference(v, f))
FieldReferredAt(s, i, v) == CHOOSE f \in FieldNames : StartsAt(s, i, FieldReference(v, f))

RECURSIVE FieldsResolved(_, _, _, _, _)
\* s from index i on, each {{ v.field }} replaced by the string form of the
\* record's field, or by nothing when erase is set or the record has no such field
FieldsResolved(s, i, v, record, erase) ==
    LET j == FirstIndex(s, i, LAMBDA q : FieldAt(s, q, v))
    IN  IF j = 0 THEN Slice(s, i, Len(s))
        ELSE LET f == FieldReferredAt(s, j, v)
             IN  Slice(s, i, j - 1) \o (IF erase THEN <<>> ELSE Bound(record, f))
                 \o FieldsResolved(s, j + Len(FieldReference(v, f)), v, record, erase)

\* the template is pre, a block from the tag open at index i to the first tag
\* close after it, at index j, and post
BlockAt(s, i, j, open, close) ==
    /\ StartsAt(s, i, open)
    /\ j >= i + Len(open)
    /\ StartsAt(s, j, close)
    /\ \A k \in (i + Len(open))..(j - 1) : ~StartsAt(s, k, close)

\* the indices of s at which p starts
Starts(s, p) == {i \in 1..Len(s) : StartsAt(s, i, p)}

Pre(s, i) == Slice(s, 1, i - 1)
Body(s, i, j, open) == Slice(s, i + Len(open), j - 1)
Post(s, j, close) == Slice(s, j + Len(close), Len(s))

Scalar(v) == v.kind \in {"str", "int", "bool"}

RECURSIVE EachScalar(_, _, _, _)
\* one instance of body per item from index i on, in order
EachScalar(body, v, items, i) ==
    IF i > Len(items) THEN <<>>
    ELSE Resolved(body, 1, {v}, <<Item(v, items[i])>>, FALSE) \o EachScalar(body, v, items, i + 1)

RECURSIVE EachRecord(_, _, _, _)
EachRecord(body, v, items, i) ==
    IF i > Len(items) THEN <<>>
    ELSE FieldsResolved(body, 1, v, items[i].items, FALSE) \o EachRecord(body, v, items, i + 1)

\* the values the specification lists as falsy
Falsy(v) ==
    \/ v = BoolVal(FALSE)
    \/ v = IntVal(0)
    \/ v = StrVal(<<>>)
    \/ v = ListVal(<<>>)

-----------------------------------------------------------------------------

\* C6 as stated: in a template of literal text (no {{ and no {% in it) and
\* scalar references, each reference is replaced by the string form of the
\* value of its name, or by nothing when the name is absent, and the text
\* around the references is kept
ScalarReferenceInAnyText ==
    (/\ Done
     /\ Contains(template, OpenVar)
     /\ NoDirective(Resolved(template, 1, RefNames, context, TRUE)))
        => result = Resolved(template, 1, RefNames, context, FALSE)

\* C6, amended: the same, for text around the references and for string
\* forms of the referred values that hold no opening brace
ScalarReference ==
    (/\ Done
     /\ Contains(template, OpenVar)
     /\ NoBrace(Resolved(template, 1, RefNames, context, TRUE))
     /\ \A n \in BoundReferences(template, RefNames, context) : NoBrace(Bound(context, n)))
        => result = Resolved(template, 1, RefNames, context, FALSE)

\* a finished call on text, a reference to a bound name, and text
ScalarReferenceWitness ==
    /\ Done
    /\ template = <<"a">> \o Reference(Name_x) \o <<NL>>
    /\ HasKey(context, Name_x)
    /\ result = <<"a", "T", NL>>

\* C7: a loop block over a list of scalars is replaced by one instance of its
\* body per element, in order, each {{ v }} in it replaced by the element's
\* string form, for every loop variable and every context
LoopOverScalars ==
    Done => \A v \in LoopVars : \A l \in ListNames : \A i \in Starts(template, ForTag(v, l)) :
      \A j \in i..Len(template) :
        (/\ BlockAt(template, i, j, ForTag(v, l), EndforTag)
         /\ NoBrace(Pre(template, i))
         /\ NoBrace(Post(template, j, EndforTag))
         /\ NoBrace(Resolved(Body(template, i, j, ForTag(v, l)), 1, {v}, <<>>, TRUE))
         /\ HasKey(context, l)
         /\ GetItem(context, l).kind = "list"
         /\ \A k \in 1..Len(GetItem(context, l).items) :
                /\ Scalar(GetItem(context, l).items[k])
                /\ NoBrace(PyStr(GetItem(context, l).items[k])))
        => result = Pre(template, i)
                    \o EachScalar(Body(template, i, j, ForTag(v, l)), v, GetItem(context, l).items, 1)
                    \o Post(template, j, EndforTag)

LoopOverNoList ==
    Done => \A v \in LoopVars : \A l \in ListNames : \A i \in Starts(template, ForTag(v, l)) :
      \A j \in i..Len(template) :
        (/\ BlockAt(template, i, j, ForTag(v, l), EndforTag)
         /\ NoBrace(Pre(template, i))
         /\ NoBrace(Post(template, j, EndforTag))
         /\ (~HasKey(context, l) \/ GetItem(context, l).kind # "list"))
        => /\ error = "none"
           /\ result = Pre(template, i) \o Post(template, j, EndforTag)

\* a finished call on a loop block with a body, over a name bound to a str
LoopOverNoListWitness ==
    /\ Done
    /\ template = ForTag(Name_x, Name_L) \o Reference(Name_x) \o EndforTag
    /\ HasKey(context, Name_L)
    /\ GetItem(context, Name_L).kind = "str"
    /\ result = <<>>

\* C10: a conditional block is replaced by its body when its name is bound
\* to a truthy value, and by nothing when the name is absent or bound to
\* False, 0, the empty string or the empty list; for a body and text around
\* the block that hold no opening brace
ConditionalBlock ==
    Done => \A c \in Conditions : \A tag \in IfTags(c) : \A i \in Starts(template, tag) :
      \A j \in i..Len(template) :
        (/\ BlockAt(template, i, j, tag, EndifTag)
         /\ NoBrace(Pre(template, i))
         /\ NoBrace(Body(template, i, j, tag))
         /\ NoBrace(Post(template, j, EndifTag)))
        => result = Pre(template, i)
                    \o (IF HasKey(context, c) /\ ~Falsy(GetItem(context, c))
                        THEN Body(template, i, j, tag) ELSE <<>>)
                    \o Post(template, j, EndifTag)

\* a finished call on a conditional block whose name is bound to the empty list
ConditionalBlockWitness ==
    /\ Done
    /\ template = IfTag(Name_c) \o <<"a">> \o EndifTag
    /\ HasKey(context, Name_c)
    /\ GetItem(context, Name_c) = ListVal(<<>>)
    /\ result = <<>>

-----------------------------------------------------------------------------

\* d with key bound to value, in the place key has in d or at the end
Rebound(d, key, value) ==
    IF HasKey(d, key)
    THEN [i \in 1..Len(d) |-> IF d[i].k = key THEN Item(key, value) ELSE d[i]]
    ELSE Append(d, Item(key, value))

\* d without key
Without(d, key) == SelectSeq(d, LAMBDA it : it.k # key)

\* the conditional block on c from index i to the tag at index j of s lies in
\* the body of a loop block
NestedIfAt(s, i, j, c) ==
    /\ BlockAt(s, i, j, IfTag(c), EndifTag)
    /\ \E v \in LoopVars : \E l \in ListNames : \E fi \in 1..(i - 1) : \E fj \in (j + 1)..Len(s) :
           /\ BlockAt(s, fi, fj, ForTag(v, l), EndforTag)
           /\ fi + Len(ForTag(v, l)) <= i
           /\ j + Len(EndifTag) <= fj

-----------------------------------------------------------------------------
(* Properties of the catalog.                                              *)

\* the plugin records of the stored catalog
Stored == IF file.kind = "json" THEN file.data.plugins ELSE <<>>

\* the name is the name of a stored record
IsStored(name) == \E i \in 1..Len(Stored) : Stored[i].name = name

\* C12: no two plugin records of the stored catalog have the same name
UniqueNames ==
    \A i, j \in 1..Len(Stored) : Stored[i].name = Stored[j].name => i = j

\* C12: a call of add_plugin with a name that is stored raises and leaves
\* the stored records as they are
AddExistingRaises ==
    [][(op'.name = "add" /\ IsStored(op'.plugin))
          => (outcome' = "ValueError" /\ file' = file)]_vars

\* C12: names stay unique and adding a stored name raises and adds nothing
UniqueNamesKept == []UniqueNames /\ AddExistingRaises

\* add_plugin has raised on a catalog of two records that holds its name
UniqueNamesKeptWitness ==
    /\ Len(Stored) = 2
    /\ op = Call("add", "q")
    /\ outcome = "ValueError"

\* C13: a call that raises leaves the stored catalog as it was
FailedCallKeepsFile ==
    [][outcome' # "none" => file' = file]_vars

\* update_plugin has raised on a catalog whose one record has another name
FailedCallKeepsFileWitness ==
    /\ Len(Stored) = 1
    /\ op = Call("update", "q")
    /\ outcome = "ValueError"

-----------------------------------------------------------------------------
(* Properties of the documentation driver.                                 *)

\* the documents the command line asks for
Requested == IF args.specific_file # NoFile THEN {args.specific_file} ELSE DocSet

\* C14: a run of main on a missing catalog file, or with the template file
\* of a requested document missing, ends with a non-zero exit status
MissingFilesFailTheRun ==
    (stage = "exited" /\ (file.kind = "missing" \/ Requested \ templates # {}))
        => exit_code # 0

====
